---------------------------- MODULE Spec2Model ----------------------------
(***************************************************************************)
(* The safety-factor calculator of js/script.js: the two number fields,    *)
(* the input listener that filters them, loadExampleData,                  *)
(* calculateSafetyFactor and updateSafetyFactorDisplay.                    *)
(*                                                                         *)
(* Texts are sequences of one-character strings.  JavaScript Numbers are   *)
(* IEEE-754 binary64 values, modelled bit-exactly: a finite nonzero value  *)
(* is sign, 53-bit significand and exponent, and parseFloat, / , - and     *)
(* toFixed round as the language specifies (nearest, ties to even for the  *)
(* arithmetic; nearest, ties upward in magnitude for toFixed).             *)
(***************************************************************************)
EXTENDS Integers, Sequences, FiniteSets, TLC

(***************************************************************************)
(* Wide naturals.  TLC's integers are 32-bit, a significand has 53 bits,   *)
(* so a natural below 2^84 is kept as three limbs <<l0, l1, l2>> of 28     *)
(* bits, least significant first.  The arithmetic is written as functions  *)
(* so that every argument is a value when the body is evaluated.           *)
(***************************************************************************)
Limb == 2^28

Wide == Nat \X Nat \X Nat

W[n \in Nat] == <<n % Limb, n \div Limb, 0>>

WZero == W[0]

WOne == W[1]

WIsZero[a \in Wide] == a[1] = 0 /\ a[2] = 0 /\ a[3] = 0

WOdd[a \in Wide] == a[1] % 2 = 1

WLess[a \in Wide, b \in Wide] ==
    \/ a[3] < b[3]
    \/ a[3] = b[3] /\ a[2] < b[2]
    \/ a[3] = b[3] /\ a[2] = b[2] /\ a[1] < b[1]

WAdd[a \in Wide, b \in Wide] ==
    LET s1 == a[1] + b[1]
        s2 == a[2] + b[2] + (s1 \div Limb)
        s3 == a[3] + b[3] + (s2 \div Limb)
    IN  <<s1 % Limb, s2 % Limb, s3 % Limb>>

\* a - b for a >= b
WSub[a \in Wide, b \in Wide] ==
    LET d1 == a[1] - b[1]
        w1 == IF d1 < 0 THEN 1 ELSE 0
        d2 == a[2] - b[2] - w1
        w2 == IF d2 < 0 THEN 1 ELSE 0
        d3 == a[3] - b[3] - w2
    IN  <<d1 + w1 * Limb, d2 + w2 * Limb, d3>>

WDouble[a \in Wide] == WAdd[a, a]

WHalve[a \in Wide] ==
    <<(a[1] \div 2) + (a[2] % 2) * (Limb \div 2),
      (a[2] \div 2) + (a[3] % 2) * (Limb \div 2),
      a[3] \div 2>>

\* a * 2^k
WShl[a \in Wide, k \in Nat] ==
    IF k = 0 THEN a
    ELSE IF k >= 4 THEN WShl[WDouble[WDouble[WDouble[WDouble[a]]]], k - 4]
    ELSE WShl[WDouble[a], k - 1]

\* a \div 2^k
WShr[a \in Wide, k \in Nat] ==
    IF k = 0 THEN a
    ELSE IF k >= 4 THEN WShr[WHalve[WHalve[WHalve[WHalve[a]]]], k - 4]
    ELSE WShr[WHalve[a], k - 1]

\* the number of bits of a limb, and of a wide natural
LimbBits[n \in Nat] ==
    CHOOSE b \in 0..28 : n < 2^b /\ (b = 0 \/ n >= 2^(b - 1))

WBits[a \in Wide] ==
    IF a[3] > 0 THEN 56 + LimbBits[a[3]]
    ELSE IF a[2] > 0 THEN 28 + LimbBits[a[2]]
    ELSE LimbBits[a[1]]

\* 10 * a + d
WTimes10Plus[a \in Wide, d \in Nat] ==
    WAdd[WAdd[WShl[a, 3], WDouble[a]], W[d]]

\* 10^k
WPow10[k \in Nat] ==
    IF k <= 9 THEN W[10^k] ELSE WTimes10Plus[WPow10[k - 1], 0]

\* the value of a wide natural that fits an integer
WToInt[a \in Wide] == a[2] * Limb + a[1]

(***************************************************************************)
(* Numbers: NaN, a zero, an infinity, or a finite nonzero binary64 value   *)
(* (-1)^neg * m * 2^e.  A normal value has 2^52 <= m < 2^53 and            *)
(* -1074 <= e <= 971; a subnormal value has e = -1074 and 0 < m < 2^52.    *)
(* A result below the subnormals is a zero, one above the largest finite   *)
(* value an infinity.                                                      *)
(***************************************************************************)
Number ==
    [kind : {"nan"}]
      \cup [kind : {"zero", "inf"}, neg : BOOLEAN]
      \cup [kind : {"finite"}, neg : BOOLEAN, m : Wide, e : Int]

NaN == [kind |-> "nan"]

Zero == [kind |-> "zero", neg |-> FALSE]

Infinity(neg) == [kind |-> "inf", neg |-> neg]

Finite(neg, m, e) == [kind |-> "finite", neg |-> neg, m |-> m, e |-> e]

Two52 == WShl[WOne, 52]

Two53 == WShl[WOne, 53]

\* a quotient x / y scaled by 2^ex
Scaled == [x : Wide, y : Wide, ex : Int]

\* Bring x / y into [1, 2) by shifting one side; ex counts the shifts.
ScaleQuotient[x \in Wide, y \in Wide, ex \in Int] ==
    LET lx == WBits[x]
        ly == WBits[y]
        x1 == IF lx < ly THEN WShl[x, ly - lx] ELSE x
        y1 == IF ly < lx THEN WShl[y, lx - ly] ELSE y
        e1 == ex + lx - ly
    IN  IF WLess[x1, y1] THEN [x |-> WDouble[x1], y |-> y1, ex |-> e1 - 1]
        ELSE [x |-> x1, y |-> y1, ex |-> e1]

\* the state of a division: the quotient bits so far and the remainder
DivState == [q : Wide, r : Wide]

\* one step of restoring division: the next quotient bit of r / y (r < y)
DivStep[st \in DivState, y \in Wide] ==
    LET r2 == WDouble[st.r]
        q2 == WDouble[st.q]
    IN  IF WLess[r2, y] THEN [q |-> q2, r |-> r2]
        ELSE [q |-> WAdd[q2, WOne], r |-> WSub[r2, y]]

\* n more quotient bits
QuotientBits[st \in DivState, y \in Wide, n \in Nat] ==
    IF n = 0 THEN st
    ELSE IF n >= 4
    THEN QuotientBits[DivStep[DivStep[DivStep[DivStep[st, y], y], y], y],
                      y, n - 4]
    ELSE QuotientBits[DivStep[st, y], y, n - 1]

\* the value q * 2^e, one more in the last place when up: a zero when
\* nothing is left, the next exponent when the significand is full, an
\* infinity above the largest exponent
Rounded[neg \in BOOLEAN, q \in Wide, up \in BOOLEAN, e \in Int] ==
    IF ~up /\ WIsZero[q] THEN [kind |-> "zero", neg |-> neg]
    ELSE IF up /\ WAdd[q, WOne] = Two53
         THEN IF e + 1 > 971 THEN Infinity(neg)
              ELSE Finite(neg, Two52, e + 1)
    ELSE IF e > 971 THEN Infinity(neg)
    ELSE Finite(neg, IF up THEN WAdd[q, WOne] ELSE q, e)

\* round the quotient bits d.q by the remainder d.r of the division by y:
\* to nearest, ties to even
RoundBits[neg \in BOOLEAN, d \in DivState, y \in Wide, e \in Int] ==
    Rounded[neg, d.q,
            WLess[y, WDouble[d.r]] \/ (WDouble[d.r] = y /\ WOdd[d.q]), e]

\* (s.x / s.y) * 2^s.ex with s.x / s.y in [1, 2): 53 quotient bits in the
\* normal range, as many as lie above 2^-1074 below it
RoundScaled[neg \in BOOLEAN, s \in Scaled] ==
    IF s.ex > 1023 THEN Infinity(neg)
    ELSE IF s.ex >= -1022
    THEN RoundBits[neg,
                   QuotientBits[[q |-> WOne, r |-> WSub[s.x, s.y]], s.y, 52],
                   s.y, s.ex - 52]
    ELSE IF s.ex >= -1074
    THEN RoundBits[neg,
                   QuotientBits[[q |-> WOne, r |-> WSub[s.x, s.y]], s.y,
                                s.ex + 1074],
                   s.y, -1074]
    ELSE IF s.ex = -1075
    THEN RoundBits[neg, [q |-> WZero, r |-> s.x], WDouble[s.y], -1074]
    ELSE [kind |-> "zero", neg |-> neg]

\* The binary64 value nearest to (x / y) * 2^ex, ties to even (x, y > 0).
RoundQuotient[neg \in BOOLEAN, x \in Wide, y \in Wide, ex \in Int] ==
    RoundScaled[neg, ScaleQuotient[x, y, ex]]

isNaN(x) == x.kind = "nan"

Sign(x) == IF x.kind = "zero" THEN 0 ELSE IF x.neg THEN -1 ELSE 1

\* |x| < |y| for nonzero x, y
MagLess(x, y) ==
    /\ x.kind = "finite"
    /\ \/ y.kind = "inf"
       \/ x.e < y.e
       \/ x.e = y.e /\ WLess[x.m, y.m]

\* x < y ; false when either is NaN
Less[x \in Number, y \in Number] ==
    /\ ~isNaN(x) /\ ~isNaN(y)
    /\ \/ Sign(x) < Sign(y)
       \/ Sign(x) = 1 /\ Sign(y) = 1 /\ MagLess(x, y)
       \/ Sign(x) = -1 /\ Sign(y) = -1 /\ MagLess(y, x)

\* x <= y ; false when either is NaN
Leq[x \in Number, y \in Number] == ~isNaN(x) /\ ~isNaN(y) /\ ~Less[y, x]

Greater[x \in Number, y \in Number] == Less[y, x]

Geq[x \in Number, y \in Number] == Leq[y, x]

\* x / y
Divide[x \in Number, y \in Number] ==
    IF isNaN(x) \/ isNaN(y) THEN NaN
    ELSE IF x.kind = y.kind /\ x.kind # "finite" THEN NaN
    ELSE IF x.kind = "inf" \/ y.kind = "zero" THEN Infinity(x.neg # y.neg)
    ELSE IF x.kind = "zero" \/ y.kind = "inf"
         THEN [kind |-> "zero", neg |-> (x.neg # y.neg)]
    ELSE RoundQuotient[x.neg # y.neg, x.m, y.m, x.e - y.e]

\* the sum or difference of two aligned significands, rounded once
RoundDifference[xneg \in BOOLEAN, xm \in Wide, yneg \in BOOLEAN, ym \in Wide, lo \in Int] ==
    IF xneg # yneg THEN RoundQuotient[xneg, WAdd[xm, ym], WOne, lo]
    ELSE IF xm = ym THEN Zero
    ELSE IF WLess[ym, xm] THEN RoundQuotient[xneg, WSub[xm, ym], WOne, lo]
    ELSE RoundQuotient[~xneg, WSub[ym, xm], WOne, lo]

\* a \div 2^k, the last bit set when a bit was shifted out
WShrSticky[a \in Wide, k \in Nat] ==
    IF k >= 84 THEN WOne
    ELSE IF WShl[WShr[a, k], k] = a \/ WOdd[WShr[a, k]] THEN WShr[a, k]
    ELSE WAdd[WShr[a, k], WOne]

\* the significand m of exponent e in units of 2^lo
Aligned[m \in Wide, e \in Int, lo \in Int] ==
    IF e >= lo THEN WShl[m, e - lo] ELSE WShrSticky[m, lo - e]

\* the exponent two significands are aligned to: that of the smaller
\* operand, and no more than 30 bits below the larger one
AlignTo[xe \in Int, ye \in Int] ==
    IF xe <= ye THEN (IF ye - xe <= 30 THEN xe ELSE ye - 30)
    ELSE (IF xe - ye <= 30 THEN ye ELSE xe - 30)

\* x - y : the exact difference of the two values, rounded once
Minus[x \in Number, y \in Number] ==
    IF isNaN(x) \/ isNaN(y) THEN NaN
    ELSE IF x.kind = "inf"
         THEN IF y.kind = "inf" /\ y.neg = x.neg THEN NaN ELSE x
    ELSE IF y.kind = "inf" THEN Infinity(~y.neg)
    ELSE IF y.kind = "zero" THEN x
    ELSE IF x.kind = "zero" THEN [y EXCEPT !.neg = ~y.neg]
    ELSE RoundDifference[x.neg, Aligned[x.m, x.e, AlignTo[x.e, y.e]],
                         y.neg, Aligned[y.m, y.e, AlignTo[x.e, y.e]],
                         AlignTo[x.e, y.e]]

(***************************************************************************)
(* Big naturals.  A decimal literal with many fraction digits is the       *)
(* quotient of its digits by a power of ten beyond the wide naturals: a    *)
(* big natural is the sequence of its limbs, least significant first,      *)
(* with no zero limb at the end.                                           *)
(***************************************************************************)
Big == Seq(Nat)

\* the most fraction digits of a literal
MaxDecimals == 330

\* limb i of a, zero beyond its length
BLimb[a \in Big, i \in Nat] == IF i >= 1 /\ i <= Len(a) THEN a[i] ELSE 0

\* a without the zero limbs at its end
BNorm[a \in Big] ==
    SubSeq(a, 1, CHOOSE n \in 0..Len(a) :
                     /\ n = 0 \/ a[n] # 0
                     /\ \A i \in (n + 1)..Len(a) : a[i] = 0)

\* the carry into limb i of a + b: a limb below i overflows and every limb
\* between passes the carry on
BCarry[a \in Big, b \in Big, i \in Nat] ==
    \E j \in 1..(i - 1) :
        /\ BLimb[a, j] + BLimb[b, j] >= Limb
        /\ \A k \in (j + 1)..(i - 1) : BLimb[a, k] + BLimb[b, k] = Limb - 1

BAddLimbs[a \in Big, b \in Big, n \in Nat] ==
    [i \in 1..n |->
        (BLimb[a, i] + BLimb[b, i] + (IF BCarry[a, b, i] THEN 1 ELSE 0))
          % Limb]

\* a + b
BAdd[a \in Big, b \in Big] ==
    BNorm[SubSeq(BAddLimbs[a, b, Len(a) + Len(b) + 1], 1,
                 (IF Len(a) > Len(b) THEN Len(a) ELSE Len(b)) + 1)]

BDouble[a \in Big] == BAdd[a, a]

\* the borrow from limb i of a - b
BBorrow[a \in Big, b \in Big, i \in Nat] ==
    \E j \in 1..(i - 1) :
        /\ BLimb[a, j] < BLimb[b, j]
        /\ \A k \in (j + 1)..(i - 1) : BLimb[a, k] = BLimb[b, k]

BSubLimbs[a \in Big, b \in Big] ==
    [i \in 1..Len(a) |->
        (BLimb[a, i] - BLimb[b, i] - (IF BBorrow[a, b, i] THEN 1 ELSE 0))
          % Limb]

\* a - b for a >= b
BSub[a \in Big, b \in Big] == BNorm[SubSeq(BSubLimbs[a, b], 1, Len(a))]

\* a < b: fewer limbs, or a smaller limb above which the limbs agree
BLess[a \in Big, b \in Big] ==
    \/ Len(a) < Len(b)
    \/ /\ Len(a) = Len(b)
       /\ \E i \in 1..Len(a) :
              /\ a[i] < b[i]
              /\ \A k \in (i + 1)..Len(a) : a[k] = b[k]

BBits[a \in Big] ==
    IF a = <<>> THEN 0 ELSE 28 * (Len(a) - 1) + LimbBits[a[Len(a)]]

\* a * 2^k for k < 28
BShlBits[a \in Big, k \in 0..27] ==
    [i \in 1..(Len(a) + 1) |->
        (BLimb[a, i] % 2^(28 - k)) * 2^k + (BLimb[a, i - 1] \div 2^(28 - k))]

\* a * 2^k
BShl[a \in Big, k \in Nat] ==
    IF a = <<>> THEN a
    ELSE [i \in 1..(k \div 28) |-> 0]
           \o BNorm[SubSeq(BShlBits[a, k % 28], 1, Len(a) + 1)]

\* acc and one more power of ten
BNextPower10[acc \in Seq(Big)] ==
    Append(acc, BAdd[BShl[acc[Len(acc)], 3], BShl[acc[Len(acc)], 1]])

\* the powers of ten from 10^0 on, n more after those of acc
BPowers10[acc \in Seq(Big), n \in Nat] ==
    IF n = 0 THEN acc
    ELSE IF n >= 8
    THEN BPowers10[BNextPower10[BNextPower10[BNextPower10[BNextPower10[
                   BNextPower10[BNextPower10[BNextPower10[BNextPower10[
                       acc]]]]]]]], n - 8]
    ELSE BPowers10[BNextPower10[acc], n - 1]

Pow10Table == BPowers10[<<(<<1>>)>>, MaxDecimals]

\* 10^k
BPow10[k \in 0..MaxDecimals] == Pow10Table[k + 1]

BScaled == [x : Big, y : Big, ex : Int]

\* x / y brought into [1, 2), for x and y of the same length in bits
BScaleSame[x \in Big, y \in Big, ex \in Int] ==
    IF BLess[x, y] THEN [x |-> BDouble[x], y |-> y, ex |-> ex - 1]
    ELSE [x |-> x, y |-> y, ex |-> ex]

BScaleQuotient[x \in Big, y \in Big, ex \in Int] ==
    BScaleSame[IF BBits[x] < BBits[y] THEN BShl[x, BBits[y] - BBits[x]]
               ELSE x,
               IF BBits[y] < BBits[x] THEN BShl[y, BBits[x] - BBits[y]]
               ELSE y,
               ex + BBits[x] - BBits[y]]

BDivState == [q : Wide, r : Big]

\* the next quotient bit, from the doubled quotient and remainder
BDivBit[q2 \in Wide, r2 \in Big, y \in Big] ==
    IF BLess[r2, y] THEN [q |-> q2, r |-> r2]
    ELSE [q |-> WAdd[q2, WOne], r |-> BSub[r2, y]]

BDivStep[st \in BDivState, y \in Big] ==
    BDivBit[WDouble[st.q], BDouble[st.r], y]

BQuotientBits[st \in BDivState, y \in Big, n \in Nat] ==
    IF n = 0 THEN st
    ELSE IF n >= 4
    THEN BQuotientBits[BDivStep[BDivStep[BDivStep[BDivStep[st, y], y], y], y],
                       y, n - 4]
    ELSE BQuotientBits[BDivStep[st, y], y, n - 1]

BRoundBits[neg \in BOOLEAN, d \in BDivState, y \in Big, e \in Int] ==
    Rounded[neg, d.q,
            BLess[y, BDouble[d.r]] \/ (BDouble[d.r] = y /\ WOdd[d.q]), e]

BRoundScaled[neg \in BOOLEAN, s \in BScaled] ==
    IF s.ex > 1023 THEN Infinity(neg)
    ELSE IF s.ex >= -1022
    THEN BRoundBits[neg,
                    BQuotientBits[[q |-> WOne, r |-> BSub[s.x, s.y]],
                                  s.y, 52],
                    s.y, s.ex - 52]
    ELSE IF s.ex >= -1074
    THEN BRoundBits[neg,
                    BQuotientBits[[q |-> WOne, r |-> BSub[s.x, s.y]],
                                  s.y, s.ex + 1074],
                    s.y, -1074]
    ELSE IF s.ex = -1075
    THEN BRoundBits[neg, [q |-> WZero, r |-> s.x], BDouble[s.y], -1074]
    ELSE [kind |-> "zero", neg |-> neg]

\* The binary64 value nearest to (x / y) * 2^ex, ties to even (x, y > 0).
BRoundQuotient[neg \in BOOLEAN, x \in Big, y \in Big, ex \in Int] ==
    BRoundScaled[neg, BScaleQuotient[x, y, ex]]

(***************************************************************************)
(* Texts and the conversions between texts and numbers.                    *)
(***************************************************************************)
Text == Seq(STRING)

DigitChars == <<"0", "1", "2", "3", "4", "5", "6", "7", "8", "9">>

IsDigit(ch) == \E i \in 1..10 : DigitChars[i] = ch

DigitValue(ch) == (CHOOSE i \in 1..10 : DigitChars[i] = ch) - 1

\* the length of the longest prefix of s made of digits
DigitPrefixLen[s \in Text] ==
    CHOOSE n \in 0..Len(s) :
        /\ n = Len(s) \/ ~IsDigit(s[n + 1])
        /\ \A i \in 1..n : IsDigit(s[i])

\* ds without its leading zeros
Significant[ds \in Text] ==
    SubSeq(ds, 1 + (CHOOSE n \in 0..Len(ds) :
                        /\ n = Len(ds) \/ ds[n + 1] # "0"
                        /\ \A i \in 1..n : ds[i] = "0"), Len(ds))

\* the natural written by a sequence of digits that starts with no zero
SignificantValue[ds \in Text] ==
    IF ds = <<>> THEN WZero
    ELSE WTimes10Plus[SignificantValue[SubSeq(ds, 1, Len(ds) - 1)],
                      DigitValue(ds[Len(ds)])]

\* the natural written by a sequence of digits
DigitsValue[ds \in Text] == SignificantValue[Significant[ds]]

\* the number written by digits of value n, the last nf of them after the
\* point: n / 10^nf rounded once, in wide naturals while 10^nf fits them
\* (n is below 2^83: at most 24 significant digits)
DecimalValue[neg \in BOOLEAN, n \in Wide, nf \in Nat] ==
    IF WIsZero[n] THEN [kind |-> "zero", neg |-> neg]
    ELSE IF nf <= 24 THEN RoundQuotient[neg, n, WPow10[nf], 0]
    ELSE BRoundQuotient[neg, BNorm[n], BPow10[nf], 0]

\* parseFloat: the longest prefix that is a decimal literal (sign, digits,
\* point, digits), or NaN when no prefix is one.  Exponent parts and
\* "Infinity" need letters, which the input listener removes.
parseFloat[text \in Text] ==
    LET neg   == text # <<>> /\ Head(text) = "-"
        body  == IF text # <<>> /\ Head(text) \in {"-", "+"} THEN Tail(text)
                 ELSE text
        ni    == DigitPrefixLen[body]
        rest  == SubSeq(body, ni + 1, Len(body))
        point == rest # <<>> /\ Head(rest) = "."
        nf    == IF point THEN DigitPrefixLen[Tail(rest)] ELSE 0
        ds    == SubSeq(body, 1, ni) \o SubSeq(rest, 2, nf + 1)
    IN  IF ni + nf = 0 THEN NaN
        ELSE DecimalValue[neg, DigitsValue[ds], nf]

\* the decimal digits of a natural
IntDigits[n \in Nat] ==
    IF n < 10 THEN <<DigitChars[n + 1]>>
    ELSE Append(IntDigits[n \div 10], DigitChars[(n % 10) + 1])

\* the integer nearest to 100 * |x| for finite x, the larger one on a tie
Hundredths[x \in Number] ==
    LET k == 0 - x.e
        m200 == WAdd[WAdd[WShl[x.m, 7], WShl[x.m, 6]], WShl[x.m, 3]]
    IN  IF k >= 62 THEN 0
        ELSE WToInt[WShr[WAdd[m200, WShl[WOne, k]], k + 1]]

\* the digits ds of a count of hundredths, written with two decimals
FixedText[neg \in BOOLEAN, ds \in Text] ==
    LET p == IF Len(ds) = 1 THEN <<"0", "0">> \o ds
             ELSE IF Len(ds) = 2 THEN <<"0">> \o ds
             ELSE ds
    IN  (IF neg THEN <<"-">> ELSE <<>>)
          \o SubSeq(p, 1, Len(p) - 2) \o <<".">>
          \o SubSeq(p, Len(p) - 1, Len(p))

\* Number.prototype.toFixed(2)
toFixed2[x \in Number] ==
    IF isNaN(x) THEN <<"N", "a", "N">>
    ELSE IF x.kind = "inf"
         THEN (IF x.neg THEN <<"-">> ELSE <<>>)
              \o <<"I", "n", "f", "i", "n", "i", "t", "y">>
    ELSE IF x.kind = "zero" THEN FixedText[FALSE, <<"0">>]
    ELSE FixedText[x.neg, IntDigits[Hundredths[x]]]

(***************************************************************************)
(* The input listener's filter (script.js, lines 177-186).                 *)
(***************************************************************************)
\* String.prototype.split('.') : the pieces between the points
Split[s \in Text] ==
    IF \A i \in 1..Len(s) : s[i] # "." THEN <<s>>
    ELSE LET i == CHOOSE j \in 1..Len(s) :
                      s[j] = "." /\ \A h \in 1..(j - 1) : s[h] # "."
         IN  <<SubSeq(s, 1, i - 1)>> \o Split[SubSeq(s, i + 1, Len(s))]

\* Array.prototype.join('')
Join[parts \in Seq(Text)] ==
    IF parts = <<>> THEN <<>> ELSE Head(parts) \o Join[Tail(parts)]

KeptByFilter(ch) == IsDigit(ch) \/ ch = "."

\* the listener with the join putting a point back between the pieces
\* after the second
sanitize_OnePointLess(value) ==
    LET cleaned == SelectSeq(value, KeptByFilter)
        parts   == Split[cleaned]
    IN  IF Len(parts) > 3
        THEN parts[1] \o <<".">> \o parts[2] \o parts[3] \o <<".">>
               \o Join[SubSeq(parts, 4, Len(parts))]
        ELSE IF Len(parts) > 2
        THEN parts[1] \o <<".">> \o Join[SubSeq(parts, 2, Len(parts))]
        ELSE cleaned

\* the listener keeping the last point instead of the first
sanitize_KeepLastPoint(value) ==
    LET cleaned == SelectSeq(value, KeptByFilter)
        parts   == Split[cleaned]
    IN  IF Len(parts) > 2
        THEN Join[SubSeq(parts, 1, Len(parts) - 1)] \o <<".">>
               \o parts[Len(parts)]
        ELSE cleaned

sanitize(value) ==
    LET cleaned == SelectSeq(value, KeptByFilter)
        parts   == Split[cleaned]
    IN  IF Len(parts) > 2
        THEN parts[1] \o <<".">> \o Join[SubSeq(parts, 2, Len(parts))]
        ELSE cleaned

(***************************************************************************)
(* The page.                                                               *)
(***************************************************************************)
VARIABLES
    actualWaterLevel,    \* value of the field actualWaterLevel
    criticalWaterLevel,  \* value of the field criticalWaterLevel
    page,                \* the result section's elements
    last                 \* the handler that ran last: what it was given,
                         \* the alerts it raised and the values it computed

vars == <<actualWaterLevel, criticalWaterLevel, page, last>>

Fields == {"actualWaterLevel", "criticalWaterLevel"}

Tiers == {"safe", "warning", "danger"}

AlertNotANumber == "Voer geldige waarden in voor beide stijghoogtes"

AlertNonPositive == "Stijghoogtes moeten positieve waarden zijn"

AlertOutOfRange ==
    "Stijghoogtes lijken onrealistisch hoog. Controleer de waarden."

TitleOf(tier) ==
    CASE tier = "safe"    -> "GEEN OPBARSTGEVAAR VERWACHT"
      [] tier = "warning" -> "MOGELIJK OPBARSTGEVAAR"
      [] tier = "danger"  -> "OPBARSTGEVAAR!"

DescriptionOf(tier) ==
    CASE tier = "safe"    -> "De veiligheidsfactor is voldoende hoog. Het risico op opbarsten is minimaal."
      [] tier = "warning" -> "De veiligheidsfactor is laag. Verhoogde aandacht en monitoring zijn noodzakelijk."
      [] tier = "danger"  -> "KRITIEKE SITUATIE: De veiligheidsfactor is te laag. Onmiddellijke actie vereist!"

\* the recommendation block: its heading and the level it interpolates
RecommendationOf(tier, targetLevel) ==
    CASE tier = "safe"    ->
             [heading |-> "Situatie is veilig", level |-> <<>>]
      [] tier = "warning" ->
             [heading |-> "Verhoogde waakzaamheid vereist",
              level |-> toFixed2[targetLevel]]
      [] tier = "danger"  ->
             [heading |-> "URGENT - Onmiddellijke actie vereist!",
              level |-> toFixed2[targetLevel]]

\* the page as loaded: nothing rendered, the result section hidden
InitialPage ==
    [safetyFactorNumber  |-> <<>>,
     displayActualLevel  |-> <<>>,
     displayCriticalLevel |-> <<>>,
     safetyMargin        |-> <<>>,
     targetLevel         |-> <<>>,
     safetyFactorDisplay |-> <<"safety-factor-display">>,
     statusMessage       |-> <<"status-message">>,
     recommendationClass |-> <<>>,
     statusTitle         |-> "",
     statusDescription   |-> "",
     recommendationText  |-> [heading |-> "", level |-> <<>>],
     resultSection       |-> "none"]

NoHandler == [handler |-> "none", alerts |-> <<>>]

\* the literals of calculateSafetyFactor and updateSafetyFactorDisplay
Hundred == parseFloat[<<"1", "0", "0">>]

OnePointTen == parseFloat[<<"1", ".", "1", "0">>]

OnePointZero == parseFloat[<<"1", ".", "0", "0">>]

\* DOMTokenList.add
ClassListAdd(className, token) ==
    IF \E i \in 1..Len(className) : className[i] = token THEN className
    ELSE Append(className, token)

Metres(x) == toFixed2[x] \o <<" ", "m">>

\* the branches with the second test strict
TierOf_WarningStrict(fs) ==
    IF Geq[fs, OnePointTen] THEN "safe"
    ELSE IF Greater[fs, OnePointZero] THEN "warning"
    ELSE "danger"

\* the branch updateSafetyFactorDisplay takes
TierOf(fs) ==
    IF Geq[fs, OnePointTen] THEN "safe"
    ELSE IF Geq[fs, OnePointZero] THEN "warning"
    ELSE "danger"

\* the rendering without the three className assignments before the branch
updateSafetyFactorDisplay_KeepClasses(p, fs, actualLevel, criticalLevel, safetyMargin, targetLevel) ==
    LET tier == TierOf(fs)
    IN  [p EXCEPT
           !.safetyFactorNumber   = toFixed2[fs],
           !.displayActualLevel   = Metres(actualLevel),
           !.displayCriticalLevel = Metres(criticalLevel),
           !.safetyMargin         = Metres(safetyMargin),
           !.targetLevel          = Metres(targetLevel),
           !.safetyFactorDisplay  = ClassListAdd(@, tier),
           !.statusMessage        = ClassListAdd(@, tier),
           !.recommendationClass  = ClassListAdd(@, tier),
           !.statusTitle          = TitleOf(tier),
           !.statusDescription    = DescriptionOf(tier),
           !.recommendationText   = RecommendationOf(tier, targetLevel)]

\* the rendering without the className assignment of recommendationText
updateSafetyFactorDisplay_RecommendationKept(p, fs, actualLevel, criticalLevel, safetyMargin, targetLevel) ==
    LET tier == TierOf(fs)
    IN  [p EXCEPT
           !.safetyFactorNumber   = toFixed2[fs],
           !.displayActualLevel   = Metres(actualLevel),
           !.displayCriticalLevel = Metres(criticalLevel),
           !.safetyMargin         = Metres(safetyMargin),
           !.targetLevel          = Metres(targetLevel),
           !.safetyFactorDisplay  =
               ClassListAdd(<<"safety-factor-display">>, tier),
           !.statusMessage        = ClassListAdd(<<"status-message">>, tier),
           !.recommendationClass  = ClassListAdd(@, tier),
           !.statusTitle          = TitleOf(tier),
           !.statusDescription    = DescriptionOf(tier),
           !.recommendationText   = RecommendationOf(tier, targetLevel)]

updateSafetyFactorDisplay(p, fs, actualLevel, criticalLevel, safetyMargin, targetLevel) ==
    LET tier == TierOf(fs)
    IN  [p EXCEPT
           !.safetyFactorNumber   = toFixed2[fs],
           !.displayActualLevel   = Metres(actualLevel),
           !.displayCriticalLevel = Metres(criticalLevel),
           !.safetyMargin         = Metres(safetyMargin),
           !.targetLevel          = Metres(targetLevel),
           !.safetyFactorDisplay  =
               ClassListAdd(<<"safety-factor-display">>, tier),
           !.statusMessage        = ClassListAdd(<<"status-message">>, tier),
           !.recommendationClass  = ClassListAdd(<<>>, tier),
           !.statusTitle          = TitleOf(tier),
           !.statusDescription    = DescriptionOf(tier),
           !.recommendationText   = RecommendationOf(tier, targetLevel)]

\* the three checks with the upper bound tested first
ValidationAlert_RangeFirst(actualLevel, criticalLevel) ==
    IF Greater[actualLevel, Hundred] \/ Greater[criticalLevel, Hundred]
    THEN AlertOutOfRange
    ELSE IF isNaN(actualLevel) \/ isNaN(criticalLevel) THEN AlertNotANumber
    ELSE IF Leq[actualLevel, Zero] \/ Leq[criticalLevel, Zero]
         THEN AlertNonPositive
    ELSE ""

\* the alert calculateSafetyFactor raises for the two parsed values, or
\* "" when they pass the three checks
ValidationAlert(actualLevel, criticalLevel) ==
    IF isNaN(actualLevel) \/ isNaN(criticalLevel) THEN AlertNotANumber
    ELSE IF Leq[actualLevel, Zero] \/ Leq[criticalLevel, Zero]
         THEN AlertNonPositive
    ELSE IF Greater[actualLevel, Hundred] \/ Greater[criticalLevel, Hundred]
         THEN AlertOutOfRange
    ELSE ""

\* the computation with the target level taken from the actual level
Computed_TargetFromActual(actualLevel, criticalLevel) ==
    [actualLevel   |-> actualLevel,
     criticalLevel |-> criticalLevel,
     safetyFactor  |-> Divide[criticalLevel, actualLevel],
     safetyMargin  |-> Minus[criticalLevel, actualLevel],
     targetLevel   |-> Divide[actualLevel, OnePointTen]]

\* the computation with the quotient inverted
Computed_Inverted(actualLevel, criticalLevel) ==
    [actualLevel   |-> actualLevel,
     criticalLevel |-> criticalLevel,
     safetyFactor  |-> Divide[actualLevel, criticalLevel],
     safetyMargin  |-> Minus[criticalLevel, actualLevel],
     targetLevel   |-> Divide[criticalLevel, OnePointTen]]

\* the computation with the margin taken the other way round
Computed_MarginReversed(actualLevel, criticalLevel) ==
    [actualLevel   |-> actualLevel,
     criticalLevel |-> criticalLevel,
     safetyFactor  |-> Divide[criticalLevel, actualLevel],
     safetyMargin  |-> Minus[actualLevel, criticalLevel],
     targetLevel   |-> Divide[criticalLevel, OnePointTen]]

\* the values calculateSafetyFactor computes from the two parsed values
Computed(actualLevel, criticalLevel) ==
    [actualLevel   |-> actualLevel,
     criticalLevel |-> criticalLevel,
     safetyFactor  |-> Divide[criticalLevel, actualLevel],
     safetyMargin  |-> Minus[criticalLevel, actualLevel],
     targetLevel   |-> Divide[criticalLevel, OnePointTen]]

\* calculateSafetyFactor showing the result section before it validates
calculateSafetyFactor_ShowFirst ==
    \E actualLevel \in {parseFloat[actualWaterLevel]},
       criticalLevel \in {parseFloat[criticalWaterLevel]} :
      \E alert \in {ValidationAlert(actualLevel, criticalLevel)} :
        IF alert # ""
        THEN /\ last' = [handler |-> "calculateSafetyFactor",
                         alerts  |-> <<alert>>]
             /\ page' = [page EXCEPT !.resultSection = "block"]
             /\ UNCHANGED <<actualWaterLevel, criticalWaterLevel>>
        ELSE \E r \in {Computed(actualLevel, criticalLevel)} :
               /\ page' = [updateSafetyFactorDisplay(page, r.safetyFactor,
                               r.actualLevel, r.criticalLevel,
                               r.safetyMargin, r.targetLevel)
                             EXCEPT !.resultSection = "block"]
               /\ last' = [handler |-> "calculateSafetyFactor",
                           alerts  |-> <<>>,
                           result  |-> r]
               /\ UNCHANGED <<actualWaterLevel, criticalWaterLevel>>

\* calculateSafetyFactor: parse the two fields, alert and return on the
\* first check that fails, otherwise compute, render and show the result
\* section.  Scrolling the section into view moves the viewport only and is
\* left out.
calculateSafetyFactor ==
    \E actualLevel \in {parseFloat[actualWaterLevel]},
       criticalLevel \in {parseFloat[criticalWaterLevel]} :
      \E alert \in {ValidationAlert(actualLevel, criticalLevel)} :
        IF alert # ""
        THEN /\ last' = [handler |-> "calculateSafetyFactor",
                         alerts  |-> <<alert>>]
             /\ UNCHANGED <<actualWaterLevel, criticalWaterLevel, page>>
        ELSE \E r \in {Computed(actualLevel, criticalLevel)} :
               /\ page' = [updateSafetyFactorDisplay(page, r.safetyFactor,
                               r.actualLevel, r.criticalLevel,
                               r.safetyMargin, r.targetLevel)
                             EXCEPT !.resultSection = "block"]
               /\ last' = [handler |-> "calculateSafetyFactor",
                           alerts  |-> <<>>,
                           result  |-> r]
               /\ UNCHANGED <<actualWaterLevel, criticalWaterLevel>>

\* the keypress listener of a number field: Enter runs the calculation,
\* any other key is left to the browser
Keys == {"Enter", "Tab"}

keypress(key) ==
    IF key = "Enter" THEN calculateSafetyFactor ELSE UNCHANGED vars

\* An input event on a field: the browser has put the edited text into the
\* field and the listener filters it.
InputEvent(field, text) ==
    /\ IF field = "actualWaterLevel"
       THEN /\ actualWaterLevel' = sanitize(text)
            /\ UNCHANGED criticalWaterLevel
       ELSE /\ criticalWaterLevel' = sanitize(text)
            /\ UNCHANGED actualWaterLevel
    /\ last' = [handler |-> "input", alerts |-> <<>>,
                field |-> field, text |-> text]
    /\ UNCHANGED page

ExampleTypes == {"safe", "warning", "danger", "other"}

\* the switch with the values of 'warning' and 'danger' exchanged
ExampleValues_Exchanged(type) ==
    CASE type = "safe"    ->
             <<(<<"1", "0", ".", "5", "0">>), (<<"1", "2", ".", "0", "0">>)>>
      [] type = "warning" ->
             <<(<<"1", "2", ".", "5", "0">>), (<<"1", "2", ".", "0", "0">>)>>
      [] type = "danger"  ->
             <<(<<"1", "1", ".", "5", "0">>), (<<"1", "2", ".", "0", "0">>)>>
      [] OTHER -> <<>>

\* the values loadExampleData writes for a type, <<actual, critical>>, or
\* <<>> for a type no case of the switch matches
ExampleValues(type) ==
    CASE type = "safe"    ->
             <<(<<"1", "0", ".", "5", "0">>), (<<"1", "2", ".", "0", "0">>)>>
      [] type = "warning" ->
             <<(<<"1", "1", ".", "5", "0">>), (<<"1", "2", ".", "0", "0">>)>>
      [] type = "danger"  ->
             <<(<<"1", "2", ".", "5", "0">>), (<<"1", "2", ".", "0", "0">>)>>
      [] OTHER -> <<>>

loadExampleData(type) ==
    /\ IF ExampleValues(type) # <<>>
       THEN /\ actualWaterLevel' = ExampleValues(type)[1]
            /\ criticalWaterLevel' = ExampleValues(type)[2]
       ELSE UNCHANGED <<actualWaterLevel, criticalWaterLevel>>
    /\ last' = [handler |-> "loadExampleData", alerts |-> <<>>,
                type |-> type]
    /\ UNCHANGED page

\* the shortest text of the smallest positive Number, 5e-324: a point, 323
\* zeros and a 5
SmallestText == <<"0", ".">> \o [i \in 1..323 |-> "0"] \o <<"5">>

\* the texts a user edits a field to
UserTexts ==
    { <<>>,
      SmallestText,
      <<"0">>,
      <<"1", "5", "0">>,
      <<"1", "0">>,
      <<"1", "1">>,
      <<"-", "5", "x">>,
      <<"1", "0", ".", "9", "0", "9", "0", "9", "0", "9", "0", "9", "0", "9",
        "0", "9", "0", "8">>,
      <<"1", "0", ".", "0", "0", "0", "0", "0", "0", "0", "0", "0", "0", "0",
        "0", "0", "0", "2">> }

Init ==
    /\ actualWaterLevel = <<>>
    /\ criticalWaterLevel = <<>>
    /\ page = InitialPage
    /\ last = NoHandler

Next ==
    \/ \E field \in Fields, text \in UserTexts : InputEvent(field, text)
    \/ \E key \in Keys : keypress(key)
    \/ \E type \in ExampleTypes : loadExampleData(type)

Spec == Init /\ [][Next]_vars

(***************************************************************************)
(* The input listener on its own: one field is edited, again and again,    *)
(* to any text over a small alphabet (two digits, the point, a sign and a  *)
(* letter) up to MaxLen characters, or to one of a few longer samples.     *)
(***************************************************************************)
MaxLen == 3

SanitizerChars == {"1", "2", ".", "-", "x"}

SampleTexts ==
    { <<"1", "2", ".", "3", ".", "4", ".", "5">>,
      <<"-", "1", ".", "5", "x", "3">>,
      <<".", "2", ".", ".", "1", ".">> }

SanitizerTexts ==
    UNION {[1..n -> SanitizerChars] : n \in 0..MaxLen} \cup SampleTexts

FieldValue(field) ==
    IF field = "actualWaterLevel" THEN actualWaterLevel
    ELSE criticalWaterLevel

OtherField(field) ==
    IF field = "actualWaterLevel" THEN "criticalWaterLevel"
    ELSE "actualWaterLevel"

SanitizerNext ==
    \E field \in Fields, text \in SanitizerTexts :
        /\ FieldValue(OtherField(field)) = <<>>
        /\ InputEvent(field, text)

SanitizerSpec == Init /\ [][SanitizerNext]_vars

(***************************************************************************)
(* Properties.                                                             *)
(***************************************************************************)
Calculated == last.handler = "calculateSafetyFactor"

Succeeded == Calculated /\ last.alerts = <<>>

Failed == Calculated /\ last.alerts # <<>>

\* the tier classes an element carries
TierClasses(className) ==
    {t \in Tiers : \E i \in 1..Len(className) : className[i] = t}

ShownTiers == TierClasses(page.safetyFactorDisplay)

InRange(x) == Greater[x, Zero] /\ Leq[x, Hundred]

\* the texts the field actualWaterLevel can hold
ActualTexts ==
    {sanitize(t) : t \in UserTexts} \cup {ExampleValues(t)[1] : t \in Tiers}

TierRank(tier) ==
    CASE tier = "danger" -> 0 [] tier = "warning" -> 1 [] tier = "safe" -> 2

\* the page a successful run leaves, computed from two field texts and the
\* page as loaded
RenderedFor(actualText, criticalText) ==
    LET r == Computed(parseFloat[actualText], parseFloat[criticalText])
    IN  [updateSafetyFactorDisplay(InitialPage, r.safetyFactor,
             r.actualLevel, r.criticalLevel, r.safetyMargin, r.targetLevel)
           EXCEPT !.resultSection = "block"]

\* the digits of s and its first point, in their order
FirstPointOnly[s \in Text, seen \in BOOLEAN] ==
    IF s = <<>> THEN <<>>
    ELSE IF IsDigit(Head(s)) THEN <<Head(s)>> \o FirstPointOnly[Tail(s), seen]
    ELSE IF Head(s) = "." /\ ~seen
         THEN <<".">> \o FirstPointOnly[Tail(s), TRUE]
    ELSE FirstPointOnly[Tail(s), seen]

\* C1: after a run of calculateSafetyFactor on the two field values, the
\* alert raised is the one of the first failing check in the order
\* not-a-number, non-positive, too high, whatever the other value is, and no
\* run raises more than one alert.
C1_ValidationOrder ==
    Calculated =>
      \A a \in {parseFloat[actualWaterLevel]},
         c \in {parseFloat[criticalWaterLevel]} :
        LET notNumber   == isNaN(a) \/ isNaN(c)
            nonPositive == Leq[a, Zero] \/ Leq[c, Zero]
            tooHigh     == Greater[a, Hundred] \/ Greater[c, Hundred]
        IN  /\ Len(last.alerts) <= 1
            /\ notNumber => last.alerts = <<AlertNotANumber>>
            /\ (~notNumber /\ nonPositive)
                 => last.alerts = <<AlertNonPositive>>
            /\ (~notNumber /\ ~nonPositive /\ tooHigh)
                 => last.alerts = <<AlertOutOfRange>>

\* a run with one value not a number and the other above 100
C1_Witness ==
    /\ Calculated
    /\ isNaN(parseFloat[actualWaterLevel])
    /\ Greater[parseFloat[criticalWaterLevel], Hundred]
    /\ last.alerts = <<AlertNotANumber>>

\* C2: after a successful run the result shows exactly one tier: safe when
\* the safety factor is >= 1.10, warning when it is >= 1.00 and < 1.10,
\* danger when it is < 1.00, with the title of that tier.
C2_TierThresholds ==
    Succeeded =>
      \A fs \in {last.result.safetyFactor} :
        /\ Cardinality(ShownTiers) = 1
        /\ Geq[fs, OnePointTen] => ShownTiers = {"safe"}
        /\ (Geq[fs, OnePointZero] /\ Less[fs, OnePointTen])
             => ShownTiers = {"warning"}
        /\ Less[fs, OnePointZero] => ShownTiers = {"danger"}
        /\ \A t \in ShownTiers : page.statusTitle = TitleOf(t)

\* a safety factor of exactly 1.00 shown as warning
C2_Witness ==
    /\ Succeeded
    /\ last.result.safetyFactor = OnePointZero
    /\ ShownTiers = {"warning"}

\* C3: a run on two values in (0, 100] raises no alert and computes
\* safetyFactor = criticalLevel / actualLevel, safetyMargin = criticalLevel -
\* actualLevel and targetLevel = criticalLevel / 1.10, the last a function of
\* criticalLevel alone.
C3_ComputedValues ==
    Calculated =>
      \A a \in {parseFloat[actualWaterLevel]},
         c \in {parseFloat[criticalWaterLevel]} :
        (InRange(a) /\ InRange(c)) =>
          /\ last.alerts = <<>>
          /\ last.result.safetyFactor = Divide[c, a]
          /\ last.result.safetyMargin = Minus[c, a]
          /\ last.result.targetLevel = Divide[c, OnePointTen]

\* a successful run on two different levels, the actual one typed with a
\* sign and a letter that the listener removed
C3_Witness ==
    /\ Succeeded
    /\ actualWaterLevel = <<"5">>
    /\ criticalWaterLevel = <<"1", "1">>
    /\ last.result.safetyMargin = parseFloat[<<"6">>]

\* C4: a run of calculateSafetyFactor that raises an alert leaves every
\* element of the result section, and its visibility, as they were.
C4_FailureLeavesPage ==
    [][(last'.handler = "calculateSafetyFactor" /\ last'.alerts # <<>>)
         => page' = page]_vars

\* a failed run with an earlier result still shown
C4_Witness ==
    /\ Failed
    /\ page.resultSection = "block"
    /\ ShownTiers = {"safe"}
    /\ page.safetyFactorNumber = <<"1", ".", "1", "4">>

\* C5: a successful run whose actual level equals criticalLevel / 1.10 has
\* a safety factor of exactly 1.10 and shows safe.  It holds on 11 with 10
\* and on 12.00 with 10.909090909090908, and fails where the quotient is
\* subnormal: 5e-324 / 1.10 is 5e-324 again, and the run on that pair has a
\* safety factor of 1 and shows warning.
C5_TargetLevelIsSafe ==
    Succeeded =>
      (last.result.actualLevel = last.result.targetLevel =>
         /\ last.result.safetyFactor = OnePointTen
         /\ ShownTiers = {"safe"})

\* C6: the text the input listener leaves in a field is a text the filter
\* does not change.
C6_SanitizeIdempotent ==
    last.handler = "input" =>
      sanitize(FieldValue(last.field)) = FieldValue(last.field)

\* an input event with three points that leaves one
C6_Witness ==
    /\ last.handler = "input"
    /\ last.text = <<".", "2", ".", ".", "1", ".">>
    /\ FieldValue(last.field) = <<".", "2", "1">>

\* C7: the text the input listener leaves holds only digits and points, at
\* most one point, and is the event's text with everything but its digits
\* and its first point removed.
C7_SanitizeOutput ==
    last.handler = "input" =>
      LET out == FieldValue(last.field)
      IN  /\ \A i \in 1..Len(out) : IsDigit(out[i]) \/ out[i] = "."
          /\ Cardinality({i \in 1..Len(out) : out[i] = "."}) <= 1
          /\ out = FirstPointOnly[last.text, FALSE]

\* the input event with the text 12.3.4.5
C7_Witness ==
    /\ last.handler = "input"
    /\ last.text = <<"1", "2", ".", "3", ".", "4", ".", "5">>
    /\ FieldValue(last.field) = <<"1", "2", ".", "3", "4", "5">>

\* C8: after a successful run, a run on the same critical level and any other
\* valid actual level that is no smaller has a safety factor no greater and
\* a tier no better, and one that is no greater has a safety factor no
\* smaller and a tier no worse.
C8_Monotone ==
    Succeeded =>
      \A text \in ActualTexts :
        \A a2 \in {parseFloat[text]} :
          InRange(a2) =>
            \A other \in {Computed(a2, last.result.criticalLevel)} :
              /\ Leq[last.result.actualLevel, a2] =>
                   /\ Geq[last.result.safetyFactor, other.safetyFactor]
                   /\ \A t \in ShownTiers :
                        TierRank(t) >= TierRank(TierOf(other.safetyFactor))
              /\ Leq[a2, last.result.actualLevel] =>
                   /\ Leq[last.result.safetyFactor, other.safetyFactor]
                   /\ \A t \in ShownTiers :
                        TierRank(t) <= TierRank(TierOf(other.safetyFactor))

\* a safe result, and a greater actual level that gives danger
C8_Witness ==
    /\ Succeeded
    /\ ShownTiers = {"safe"}
    /\ \E text \in ActualTexts :
         /\ InRange(parseFloat[text])
         /\ Less[last.result.actualLevel, parseFloat[text]]
         /\ TierOf(Divide[last.result.criticalLevel, parseFloat[text]])
              = "danger"

\* C9: after a successful run, the result section and the computed values
\* are those the two current field values give on a page that never rendered
\* anything, whatever was edited, loaded, rendered or refused before.
C9_HistoryIndependent ==
    Succeeded =>
      /\ page = RenderedFor(actualWaterLevel, criticalWaterLevel)
      /\ last.result = Computed(parseFloat[actualWaterLevel],
                                parseFloat[criticalWaterLevel])

\* a danger result on the values of the 'danger' example
C9_Witness ==
    /\ Succeeded
    /\ <<actualWaterLevel, criticalWaterLevel>> = ExampleValues("danger")
    /\ ShownTiers = {"danger"}
    /\ page.safetyFactorNumber = <<"0", ".", "9", "6">>

\* C10: a run of calculateSafetyFactor right after loadExampleData of
\* 'safe', 'warning' or 'danger' raises no alert and shows that tier.
C10_ExamplesShowTheirTier ==
    [][(/\ last.handler = "loadExampleData"
        /\ last.type \in Tiers
        /\ last'.handler = "calculateSafetyFactor")
         => /\ last'.alerts = <<>>
            /\ TierClasses(page'.safetyFactorDisplay) = {last.type}]_vars

\* a warning result on the values of the 'warning' example
C10_Witness ==
    /\ Succeeded
    /\ <<actualWaterLevel, criticalWaterLevel>> = ExampleValues("warning")
    /\ ShownTiers = {"warning"}
    /\ page.safetyFactorNumber = <<"1", ".", "0", "4">>

\* C11: after a successful run the result shows danger exactly when the
\* actual level is greater than the critical level, which is exactly when the
\* safety margin is negative; equal levels give a safety factor of exactly
\* 1.00 and warning; and no result with a negative margin shows safe or
\* warning.
C11_DangerIffAbove ==
    Succeeded =>
      \A r \in {last.result} :
        /\ ShownTiers = {"danger"}
             <=> Greater[r.actualLevel, r.criticalLevel]
        /\ Greater[r.actualLevel, r.criticalLevel]
             <=> Less[r.safetyMargin, Zero]
        /\ r.actualLevel = r.criticalLevel
             => /\ r.safetyFactor = OnePointZero
                /\ ShownTiers = {"warning"}
        /\ Less[r.safetyMargin, Zero]
             => ShownTiers \cap {"safe", "warning"} = {}

\* the run on 10.000000000000002 and 10: the actual level is one unit in
\* the last place above the critical one, the factor is written 1.00 and the
\* margin -0.00, and the result shows danger
C11_Witness ==
    /\ Succeeded
    /\ criticalWaterLevel = <<"1", "0">>
    /\ Len(actualWaterLevel) = 18
    /\ Greater[last.result.actualLevel, last.result.criticalLevel]
    /\ page.safetyFactorNumber = <<"1", ".", "0", "0">>
    /\ ShownTiers = {"danger"}

\* the class lists of the three styled elements
StyledClasses(p) ==
    <<p.safetyFactorDisplay, p.statusMessage, p.recommendationClass>>

\* className carries exactly one tier class, and it is tier
CarriesOnly(className, tier) ==
    /\ TierClasses(className) = {tier}
    /\ Cardinality({i \in 1..Len(className) : className[i] \in Tiers}) = 1

\* C12: once a run has succeeded, safetyFactorDisplay, statusMessage and
\* recommendationText each carry exactly one tier class and all three the
\* same one; a successful run leaves them with the tier of its safety
\* factor and nothing of an earlier tier, and every other step leaves the
\* three class lists as they were, so the class is always that of the most
\* recent successful run.
C12_OneTierClass ==
    /\ [](page.resultSection = "block" =>
            \E t \in Tiers :
              \A i \in 1..3 : CarriesOnly(StyledClasses(page)[i], t))
    /\ [][IF last'.handler = "calculateSafetyFactor" /\ last'.alerts = <<>>
          THEN \A i \in 1..3 :
                 CarriesOnly(StyledClasses(page')[i],
                             TierOf(last'.result.safetyFactor))
          ELSE StyledClasses(page') = StyledClasses(page)]_vars

\* a refused run after a successful one: the three elements still carry
\* the warning class of the earlier result and no other
C12_Witness ==
    /\ Failed
    /\ page.resultSection = "block"
    /\ StyledClasses(page) = << <<"safety-factor-display", "warning">>,
                                <<"status-message", "warning">>,
                                <<"warning">> >>

=============================================================================
